---- MODULE Spec2Model ----
(***************************************************************************)
(* Model of the continuous-segment indicator pipeline                      *)
(* (dataset_generator/split_and_calc_index.py: process_crypto_data) and    *)
(* of the k-line time-series validator (validate_json.py).                 *)
(*                                                                         *)
(* Time is counted in seconds.  A timestamp string 'YYYY-MM-DD HH:MM:SS'   *)
(* is the tuple <<day, hour, minute, second>>; a parsed datetime is the    *)
(* number of seconds since day 0.  Prices and volumes are integers; a      *)
(* computed indicator value v stands for the real number v / Scale, and    *)
(* NaN / Inf are the two non-finite outcomes of a float division by zero.  *)
(***************************************************************************)
EXTENDS Integers, Sequences, FiniteSets, TLC

VARIABLES
    data,                        \* json.load(f): the list of bar records
    df,                          \* the DataFrame after parsing and sorting
    i,                           \* loop index of the segmenter scan
    current_segment,             \* rows of the run being built
    segments,                    \* list of closed segments
    idx,                         \* enumerate index of the segment loop
    combined_processed_segments, \* entries collected for the combined file
    segment_files,               \* segment_<id>.json files written so far
    combined_file,               \* content of the combined output file
    warnings,                    \* ids of segments discarded with a warning
    pc,                          \* position of process_crypto_data
    error,                       \* exception that ended the run, or "none"
    twin,                        \* a second input frame and the bars it shares
    twinOut,                     \* outputs of process_crypto_data on twin
    klines,                      \* validate_json: the k-line list
    times,                       \* validate_klines: parsed open_times
    vi,                          \* validate_klines: loop index
    duplicates,                  \* validate_klines: duplicates list
    missing,                     \* validate_klines: missing list
    vpc,                         \* position of validate_json.main
    vresult                      \* (is_valid, message) returned by validate_klines

vars == <<data, df, i, current_segment, segments, idx,
          combined_processed_segments, segment_files, combined_file,
          warnings, pc, error, twin, twinOut,
          klines, times, vi, duplicates, missing, vpc, vresult>>

pipeVars == <<data, df, i, current_segment, segments, idx,
              combined_processed_segments, segment_files, combined_file,
              warnings, pc, error>>

twinVars == <<twin, twinOut>>

valVars == <<klines, times, vi, duplicates, missing, vpc, vresult>>

(***************************************************************************)
(* Bounds of the model                                                     *)
(***************************************************************************)
MaxSmall == 3      \* longest hand-enumerated input list
MaxSlots == 6      \* half-hour slots 0..MaxSlots used by enumerated inputs
MaxExtra == 2      \* long runs have 98 .. 99 + MaxExtra bars
Scale == 1000      \* a float v is held as the integer v * Scale

(***************************************************************************)
(* Program constants                                                       *)
(***************************************************************************)
OneHour == 3600          \* timedelta(hours=1)
MinSegmentLen == 99      \* if len(segment) >= 99
TrimCount == 99          \* seg.iloc[99:]
ExpectedStep == 3600     \* validate_klines: timedelta(hours=1)
multiplier == 275        \* multiplier = 2.75, in hundredths

(***************************************************************************)
(* Timestamps: strptime / strftime with '%Y-%m-%d %H:%M:%S'                *)
(***************************************************************************)
ParseError == 0 - 1

\* datetime.strptime / pd.to_datetime: a string whose fields are out of
\* range does not parse (ValueError)
Strptime(s) ==
    IF s[1] >= 0 /\ s[2] \in 0..23 /\ s[3] \in 0..59 /\ s[4] \in 0..59
    THEN ((s[1] * 24 + s[2]) * 60 + s[3]) * 60 + s[4]
    ELSE ParseError

\* strftime of a datetime back to the string form
Strftime(t) ==
    <<t \div 86400, (t % 86400) \div 3600, (t % 3600) \div 60, t % 60>>

\* order of the zero-padded strings: field by field
StrLess(a, b) ==
    \E k \in 1..4 : a[k] < b[k] /\ \A j \in 1..(k - 1) : a[j] = b[j]

BadStamp == <<0, 24, 0, 0>>

(***************************************************************************)
(* Float values held by the DataFrame                                      *)
(***************************************************************************)
NaN == 0 - 1000000000
Inf == 0 - 999999999

IsNum(x) == x > Inf

(***************************************************************************)
(* Inputs: bar records as json.load returns them                           *)
(***************************************************************************)
Profiles == {"flat", "wave", "band", "dry"}

ClosePrice(profile, pos) ==
    CASE profile = "flat" -> 2
      [] profile = "band" -> 2 + (pos % 2)
      [] OTHER -> 3 + (pos % 3)

HighPrice(profile, pos) ==
    CASE profile = "flat" -> 2
      [] profile = "band" -> 4
      [] OTHER -> ClosePrice(profile, pos) + 1

LowPrice(profile, pos) ==
    CASE profile = "flat" -> 2
      [] profile = "band" -> 1
      [] OTHER -> ClosePrice(profile, pos) - 1

Volume(profile, pos) ==
    CASE profile = "dry" -> 0
      [] profile = "wave" -> 1 + (pos % 2)
      [] OTHER -> 1

\* number_of_trades is given the record's position in the file, so that
\* every record of an input is distinguishable
MakeBar(pos, stamp, profile) ==
    [open_time |-> stamp,
     close_time |-> IF Strptime(stamp) = ParseError THEN stamp
                    ELSE Strftime(Strptime(stamp) + 3599),
     open_price |-> ClosePrice(profile, pos),
     high_price |-> HighPrice(profile, pos),
     low_price |-> LowPrice(profile, pos),
     close_price |-> ClosePrice(profile, pos),
     volume |-> Volume(profile, pos),
     number_of_trades |-> pos]

SmallStamps == {Strftime(1800 * s) : s \in 0..MaxSlots} \cup {BadStamp}

SmallData ==
    UNION {{[p \in 1..n |-> MakeBar(p, f[p], "wave")] : f \in [1..n -> SmallStamps]}
           : n \in 0..MaxSmall}

\* a shape is a list of runs <<length, gap>>: length hourly bars, then the
\* next run starts gap seconds after this run's last bar
RECURSIVE ShapeStart(_, _)
ShapeStart(shape, r) ==
    IF r = 1 THEN 0
    ELSE ShapeStart(shape, r - 1) + 3600 * (shape[r - 1][1] - 1) + shape[r - 1][2]

RECURSIVE ShapeFirst(_, _)
ShapeFirst(shape, r) ==
    IF r = 1 THEN 1 ELSE ShapeFirst(shape, r - 1) + shape[r - 1][1]

ShapeLen(shape) == ShapeFirst(shape, Len(shape)) + shape[Len(shape)][1] - 1

RunOf(shape, pos) ==
    CHOOSE r \in 1..Len(shape) :
        pos >= ShapeFirst(shape, r) /\ pos < ShapeFirst(shape, r) + shape[r][1]

Build(shape, profile, miss) ==
    [pos \in 1..ShapeLen(shape) |->
        LET r == RunOf(shape, pos)
            t == ShapeStart(shape, r) + 3600 * (pos - ShapeFirst(shape, r))
            b == MakeBar(pos, Strftime(t), profile)
        IN IF pos \in miss THEN [b EXCEPT !.close_price = NaN] ELSE b]

SingleRuns == {<< <<n, 0>> >> : n \in 98..(99 + MaxExtra)}

MultiRuns ==
    {<< <<150, 0>> >>,
     << <<51, 14400>>, <<107, 0>> >>,
     << <<100, 7200>>, <<99, 1800>>, <<100, 0>> >>,
     << <<98, 5400>>, <<100, 0>> >>}

\* positions whose close_price is null in the file
MissSets(n) == {{1}, {50}, 1..100 \cap 1..n, 1..n}

BigData ==
    {Build(shape, profile, {}) : shape \in SingleRuns \cup MultiRuns, profile \in Profiles}
    \cup UNION {{Build(shape, "wave", m) : m \in MissSets(ShapeLen(shape))}
                : shape \in SingleRuns}

(***************************************************************************)
(* Float arithmetic.  A division by zero gives NaN (0/0) or Inf (x/0); a   *)
(* non-finite operand makes the result non-finite.                         *)
(***************************************************************************)
Add(x, y) == IF IsNum(x) /\ IsNum(y) THEN x + y ELSE NaN

Sub(x, y) == IF IsNum(x) /\ IsNum(y) THEN x - y ELSE NaN

Abs(x) == IF ~IsNum(x) THEN x ELSE IF x < 0 THEN 0 - x ELSE x

\* x * n and x / n for an integer constant n
MulInt(x, n) == IF IsNum(x) THEN x * n ELSE NaN

DivInt(x, n) == IF IsNum(x) THEN x \div n ELSE NaN

\* x * y and x / y of two floats
MulF(x, y) == IF IsNum(x) /\ IsNum(y) THEN (x * y) \div Scale ELSE NaN

DivF(x, y) ==
    IF ~(IsNum(x) /\ IsNum(y)) THEN NaN
    ELSE IF y = 0 THEN (IF x = 0 THEN NaN ELSE Inf)
    ELSE (x * Scale) \div y

Max2(x, y) == IF x >= y THEN x ELSE y

Min2(x, y) == IF x <= y THEN x ELSE y

\* max / min over a row of a frame, skipping NaN (DataFrame.max(axis=1))
MaxSkipNa(x, y) ==
    IF ~IsNum(x) THEN y ELSE IF ~IsNum(y) THEN x ELSE Max2(x, y)

MinSkipNa(x, y) ==
    IF ~IsNum(x) THEN y ELSE IF ~IsNum(y) THEN x ELSE Min2(x, y)

RECURSIVE ISqrtIn(_, _, _)
ISqrtIn(v, lo, hi) ==
    IF lo >= hi THEN lo
    ELSE LET mid == (lo + hi + 1) \div 2
         IN IF mid * mid <= v THEN ISqrtIn(v, mid, hi) ELSE ISqrtIn(v, lo, mid - 1)

(***************************************************************************)
(* Series: a column is a function on 0..n-1, as in the DataFrame           *)
(***************************************************************************)
Size(xs) == Cardinality(DOMAIN xs)

\* a column of a segment as floats
Column(seg, f) ==
    [k \in 0..(Len(seg) - 1) |-> MulInt(seg[k + 1][f], Scale)]

Shift(xs) == [k \in DOMAIN xs |-> IF k = 0 THEN NaN ELSE xs[k - 1]]

\* sums, maxima and minima of xs[lo..hi], by halving the range
RECURSIVE SumRange(_, _, _)
SumRange(xs, lo, hi) ==
    IF lo > hi THEN 0
    ELSE IF lo = hi THEN xs[lo]
    ELSE LET mid == (lo + hi) \div 2
         IN SumRange(xs, lo, mid) + SumRange(xs, mid + 1, hi)

AllNum(xs, lo, hi) == \A j \in lo..hi : IsNum(xs[j])

RECURSIVE MaxRange(_, _, _)
MaxRange(xs, lo, hi) ==
    IF lo = hi THEN xs[lo]
    ELSE LET mid == (lo + hi) \div 2
         IN Max2(MaxRange(xs, lo, mid), MaxRange(xs, mid + 1, hi))

RECURSIVE MinRange(_, _, _)
MinRange(xs, lo, hi) ==
    IF lo = hi THEN xs[lo]
    ELSE LET mid == (lo + hi) \div 2
         IN Min2(MinRange(xs, lo, mid), MinRange(xs, mid + 1, hi))

\* Series.rolling(window=w).sum() / .mean() / .max() / .min(): min_periods
\* is w, so a window that is not full, or holds a NaN, gives NaN
RollingSum(xs, w) ==
    [k \in DOMAIN xs |->
        IF k < w - 1 \/ ~AllNum(xs, k - w + 1, k) THEN NaN
        ELSE SumRange(xs, k - w + 1, k)]

RollingMean(xs, w) ==
    [k \in DOMAIN xs |->
        IF k < w - 1 \/ ~AllNum(xs, k - w + 1, k) THEN NaN
        ELSE SumRange(xs, k - w + 1, k) \div w]

RollingMax(xs, w) ==
    [k \in DOMAIN xs |->
        IF k < w - 1 \/ ~AllNum(xs, k - w + 1, k) THEN NaN
        ELSE MaxRange(xs, k - w + 1, k)]

RollingMin(xs, w) ==
    [k \in DOMAIN xs |->
        IF k < w - 1 \/ ~AllNum(xs, k - w + 1, k) THEN NaN
        ELSE MinRange(xs, k - w + 1, k)]

\* Series.rolling(w).std(ddof=0): population standard deviation
RECURSIVE SumSqDev(_, _, _, _)
SumSqDev(xs, mean, lo, hi) ==
    IF lo > hi THEN 0
    ELSE IF lo = hi THEN (xs[lo] - mean) * (xs[lo] - mean)
    ELSE LET mid == (lo + hi) \div 2
         IN SumSqDev(xs, mean, lo, mid) + SumSqDev(xs, mean, mid + 1, hi)

RollingStd(xs, w) ==
    [k \in DOMAIN xs |->
        IF k < w - 1 \/ ~AllNum(xs, k - w + 1, k) THEN NaN
        ELSE LET mean == SumRange(xs, k - w + 1, k) \div w
             IN ISqrtIn(SumSqDev(xs, mean, k - w + 1, k) \div w, 0, 40000)]

\* one step of an exponentially weighted mean with adjust=False:
\* y = (1 - alpha) * y + alpha * x, alpha = num / den
EwmStep(y, x, num, den) == y - ((num * y) \div den) + ((num * x) \div den)

\* A fold over the places lo..hi halves the range and finishes the left half
\* (the test on left) before it starts the right one.
\* Series.ewm(alpha=num/den, min_periods=minp, adjust=False).mean(): acc
\* holds <<y, count of observations>> after each index; leading NaNs are
\* skipped and the first observation starts the mean
RECURSIVE EwmFill(_, _, _, _, _, _)
EwmFill(xs, num, den, lo, hi, acc) ==
    IF lo > hi THEN acc
    ELSE IF lo = hi
    THEN LET prev == IF lo = 0 THEN <<NaN, 0>> ELSE acc[lo]
             st == IF ~IsNum(xs[lo]) THEN prev
                   ELSE IF prev[2] = 0 THEN <<xs[lo], 1>>
                   ELSE <<EwmStep(prev[1], xs[lo], num, den), prev[2] + 1>>
         IN Append(acc, st)
    ELSE LET mid == (lo + hi) \div 2
             left == EwmFill(xs, num, den, lo, mid, acc)
         IN IF Len(left) >= 0 THEN EwmFill(xs, num, den, mid + 1, hi, left) ELSE left

Ewm(xs, num, den, minp) ==
    LET sts == EwmFill(xs, num, den, 0, Size(xs) - 1, << >>)
    IN [k \in DOMAIN xs |-> IF sts[k + 1][2] < minp THEN NaN ELSE sts[k + 1][1]]

(***************************************************************************)
(* The indicators of the ta library, as process_crypto_data calls them     *)
(* (fillna=False everywhere)                                               *)
(***************************************************************************)
\* ta.volatility.AverageTrueRange: true range, then Wilder smoothing seeded
\* with the mean of the first w true ranges; zeros before index w - 1
TrueRange(high, low, close) ==
    LET cs == Shift(close)
    IN [k \in DOMAIN close |->
          MaxSkipNa(MaxSkipNa(Sub(high[k], low[k]), Abs(Sub(high[k], cs[k]))),
                    Abs(Sub(low[k], cs[k])))]

RECURSIVE WilderFill(_, _, _, _, _)
WilderFill(tr, w, lo, hi, acc) ==
    IF lo > hi THEN acc
    ELSE IF lo = hi
    THEN LET v == IF lo < w - 1 THEN 0
                  ELSE IF lo = w - 1
                       THEN (IF AllNum(tr, 0, w - 1)
                             THEN SumRange(tr, 0, w - 1) \div w ELSE NaN)
                  ELSE DivInt(Add(MulInt(acc[lo], w - 1), tr[lo]), w)
         IN Append(acc, v)
    ELSE LET mid == (lo + hi) \div 2
             left == WilderFill(tr, w, lo, mid, acc)
         IN IF Len(left) >= 0 THEN WilderFill(tr, w, mid + 1, hi, left) ELSE left

AverageTrueRange(high, low, close, w) ==
    LET atr == WilderFill(TrueRange(high, low, close), w, 0, Size(close) - 1, << >>)
    IN [k \in DOMAIN close |-> atr[k + 1]]

\* ta.momentum.RSIIndicator
RSI(close, w) ==
    LET cs == Shift(close)
        diff == [k \in DOMAIN close |-> Sub(close[k], cs[k])]
        up == [k \in DOMAIN close |->
                 IF IsNum(diff[k]) /\ diff[k] > 0 THEN diff[k] ELSE 0]
        dn == [k \in DOMAIN close |->
                 IF IsNum(diff[k]) /\ diff[k] < 0 THEN 0 - diff[k] ELSE 0]
        emaup == Ewm(up, 1, w, w)
        emadn == Ewm(dn, 1, w, w)
    IN [k \in DOMAIN close |->
          IF emadn[k] = 0 THEN 100 * Scale
          ELSE LET rs == DivF(emaup[k], emadn[k])
               IN Sub(100 * Scale, DivF(100 * Scale, Add(Scale, rs)))]

\* ta.trend.EMAIndicator and the EMAs inside ta.trend.MACD:
\* ewm(span=w, min_periods=w, adjust=False), alpha = 2 / (w + 1)
EMA(xs, w) == Ewm(xs, 2, w + 1, w)

\* ta.trend.MACD with its defaults window_slow=26, window_fast=12,
\* window_sign=9
MACDLine(close) ==
    LET fast == EMA(close, 12)
        slow == EMA(close, 26)
    IN [k \in DOMAIN close |-> Sub(fast[k], slow[k])]

MACDSignal(close) == EMA(MACDLine(close), 9)

MACDDiff(close) ==
    LET m == MACDLine(close)
        sg == MACDSignal(close)
    IN [k \in DOMAIN close |-> Sub(m[k], sg[k])]

\* ta.volatility.BollingerBands
BollingerMavg(close, w) == RollingMean(close, w)

BollingerHband(close, w, dev) ==
    LET mavg == RollingMean(close, w)
        mstd == RollingStd(close, w)
    IN [k \in DOMAIN close |-> Add(mavg[k], MulInt(mstd[k], dev))]

BollingerLband(close, w, dev) ==
    LET mavg == RollingMean(close, w)
        mstd == RollingStd(close, w)
    IN [k \in DOMAIN close |-> Sub(mavg[k], MulInt(mstd[k], dev))]

\* ta.momentum.StochasticOscillator
Stoch(high, low, close, w) ==
    LET smin == RollingMin(low, w)
        smax == RollingMax(high, w)
    IN [k \in DOMAIN close |->
          DivF(MulInt(Sub(close[k], smin[k]), 100), Sub(smax[k], smin[k]))]

StochSignal(high, low, close, w, smooth) ==
    RollingMean(Stoch(high, low, close, w), smooth)

\* ta.momentum.WilliamsRIndicator
WilliamsR(high, low, close, lbp) ==
    LET hh == RollingMax(high, lbp)
        ll == RollingMin(low, lbp)
    IN [k \in DOMAIN close |->
          DivF(MulInt(Sub(hh[k], close[k]), 0 - 100), Sub(hh[k], ll[k]))]

\* ta.volume.ChaikinMoneyFlowIndicator
ChaikinMoneyFlow(high, low, close, vol, w) ==
    LET mfm == [k \in DOMAIN close |->
                  DivF(Sub(Sub(close[k], low[k]), Sub(high[k], close[k])),
                       Sub(high[k], low[k]))]
        mfv == [k \in DOMAIN close |->
                  MulF(IF mfm[k] = NaN THEN 0 ELSE mfm[k], vol[k])]
        top == RollingSum(mfv, w)
        bot == RollingSum(vol, w)
    IN [k \in DOMAIN close |-> DivF(top[k], bot[k])]

\* ta.volume.MFIIndicator
MoneyFlowIndex(high, low, close, vol, w) ==
    LET tp == [k \in DOMAIN close |-> DivInt(Add(Add(high[k], low[k]), close[k]), 3)]
        ts == Shift(tp)
        updown == [k \in DOMAIN close |->
                     IF IsNum(tp[k]) /\ IsNum(ts[k]) /\ tp[k] > ts[k] THEN 1
                     ELSE IF IsNum(tp[k]) /\ IsNum(ts[k]) /\ tp[k] < ts[k] THEN 0 - 1
                     ELSE 0]
        mfr == [k \in DOMAIN close |-> MulInt(MulF(tp[k], vol[k]), updown[k])]
        posmf == RollingSum([k \in DOMAIN close |->
                     IF IsNum(mfr[k]) /\ mfr[k] < 0 THEN 0 ELSE mfr[k]], w)
        negmf == RollingSum([k \in DOMAIN close |->
                     IF IsNum(mfr[k]) /\ mfr[k] >= 0 THEN 0 ELSE Abs(mfr[k])], w)
    IN [k \in DOMAIN close |->
          LET ratio == DivF(posmf[k], negmf[k])
          IN IF ratio = Inf THEN 100 * Scale
             ELSE Sub(100 * Scale, DivF(100 * Scale, Add(Scale, ratio)))]

\* ta.trend.ADXIndicator.  _run keeps three Wilder sums over the frame's
\* last n - (w - 1) places: place 0 is the sum of the first w values, place
\* j in 1..m-2 adds the value of bar w + j, and the last place stays 0.
RECURSIVE WilderSum(_, _, _, _, _)
WilderSum(xs, w, lo, hi, acc) ==
    IF lo > hi THEN acc
    ELSE IF lo = hi
    THEN LET m == Size(xs) - (w - 1)
             v == IF lo = 0 THEN SumRange(xs, 0, w - 1)
                  ELSE IF lo = m - 1 THEN 0
                  ELSE Add(Sub(acc[lo], DivInt(acc[lo], w)), xs[w + lo])
         IN Append(acc, v)
    ELSE LET mid == (lo + hi) \div 2
             left == WilderSum(xs, w, lo, mid, acc)
         IN IF Len(left) >= 0 THEN WilderSum(xs, w, mid + 1, hi, left) ELSE left

\* the Wilder sums of a column over all its places 0..m-1
WilderSums(xs, w) == WilderSum(xs, w, 0, Size(xs) - w, << >>)

DirectionalMovement(high, low, close) ==
    LET cs == Shift(close)
    IN [k \in DOMAIN close |->
          Sub(MaxSkipNa(high[k], cs[k]), MinSkipNa(low[k], cs[k]))]

PlusDM(high, low) ==
    [k \in DOMAIN high |->
        IF k = 0 THEN 0
        ELSE LET up == high[k] - high[k - 1]
                 down == low[k - 1] - low[k]
             IN IF up > down /\ up > 0 THEN up ELSE 0]

MinusDM(high, low) ==
    [k \in DOMAIN high |->
        IF k = 0 THEN 0
        ELSE LET up == high[k] - high[k - 1]
                 down == low[k - 1] - low[k]
             IN IF down > up /\ down > 0 THEN down ELSE 0]

\* 100 * (dm[j] / trs[j]) for every place j
DirectionalIndex(dm, trs) ==
    [j \in 1..Len(trs) |-> MulInt(DivF(dm[j], trs[j]), 100)]

\* adx(): DX per place, then adx_series: zeros up to place w - 1, the mean
\* of DX[0:w] at place w, Wilder smoothing of DX[j - 1] after it
RECURSIVE AdxFill(_, _, _, _, _)
AdxFill(dx, w, lo, hi, acc) ==
    IF lo > hi THEN acc
    ELSE IF lo = hi
    THEN LET v == IF lo < w THEN 0
                  ELSE IF lo = w
                       THEN (IF \A q \in 1..w : IsNum(dx[q])
                             THEN SumRange(dx, 1, w) \div w ELSE NaN)
                  ELSE DivInt(Add(MulInt(acc[lo], w - 1), dx[lo]), w)
         IN Append(acc, v)
    ELSE LET mid == (lo + hi) \div 2
             left == AdxFill(dx, w, lo, mid, acc)
         IN IF Len(left) >= 0 THEN AdxFill(dx, w, mid + 1, hi, left) ELSE left

ADX(high, low, close, w) ==
    LET trs == WilderSums(DirectionalMovement(high, low, close), w)
        dip == DirectionalIndex(WilderSums(PlusDM(high, low), w), trs)
        din == DirectionalIndex(WilderSums(MinusDM(high, low), w), trs)
        dx == [j \in 1..Len(trs) |->
                 MulInt(DivF(Abs(Sub(dip[j], din[j])), Add(dip[j], din[j])), 100)]
        series == AdxFill(dx, w, 0, Len(trs) - 1, << >>)
    IN [k \in DOMAIN close |-> IF k < w - 1 THEN 0 ELSE series[k - (w - 1) + 1]]

\* adx_pos() / adx_neg(): zeros, and at bar j + w the index of place j,
\* for j in 1..m-2
ADXPos(high, low, close, w) ==
    LET trs == WilderSums(DirectionalMovement(high, low, close), w)
        dip == DirectionalIndex(WilderSums(PlusDM(high, low), w), trs)
    IN [k \in DOMAIN close |-> IF k <= w THEN 0 ELSE dip[k - w + 1]]

ADXNeg(high, low, close, w) ==
    LET trs == WilderSums(DirectionalMovement(high, low, close), w)
        din == DirectionalIndex(WilderSums(MinusDM(high, low), w), trs)
    IN [k \in DOMAIN close |-> IF k <= w THEN 0 ELSE din[k - w + 1]]

(***************************************************************************)
(* process_crypto_data: loading                                            *)
(***************************************************************************)
\* pd.to_datetime on the two time columns
ParseRow(r) ==
    [r EXCEPT !.open_time = Strptime(r.open_time),
              !.close_time = Strptime(r.close_time)]

ParseFrame(d) == [k \in 1..Len(d) |-> ParseRow(d[k])]

Parseable(d) ==
    \A k \in 1..Len(d) :
        Strptime(d[k].open_time) # ParseError /\ Strptime(d[k].close_time) # ParseError

\* df.sort_values('open_time') with the default quicksort: any ascending
\* arrangement of the rows; rows with equal open_time may come in any order
SortValues(rows) ==
    LET n == Len(rows)
    IN IF \A k \in 1..(n - 1) : rows[k].open_time < rows[k + 1].open_time
       THEN {rows}
       ELSE {[k \in 1..n |-> rows[p[k]]] :
                p \in {q \in [1..n -> 1..n] :
                         /\ \A a, b \in 1..n : a # b => q[a] # q[b]
                         /\ \A a \in 1..(n - 1) :
                               rows[q[a]].open_time <= rows[q[a + 1]].open_time}}

(***************************************************************************)
(* process_crypto_data: the segmenter                                      *)
(***************************************************************************)
\* ScanStep starting a new run without closing the current one
ScanStepForget(st, previous, current) ==
    IF current.open_time - previous.open_time = OneHour
    THEN [st EXCEPT !.current_segment = Append(@, current)]
    ELSE [st EXCEPT !.current_segment = <<current>>]

\* ScanStep extending the run on any step of at most an hour
ScanStepAtMost(st, previous, current) ==
    IF current.open_time - previous.open_time <= OneHour
    THEN [st EXCEPT !.current_segment = Append(@, current)]
    ELSE [segments |-> Append(st.segments, st.current_segment),
          current_segment |-> <<current>>]

\* ScanStep extending the run on any step of at least an hour
ScanStepAtLeast(st, previous, current) ==
    IF current.open_time - previous.open_time >= OneHour
    THEN [st EXCEPT !.current_segment = Append(@, current)]
    ELSE [segments |-> Append(st.segments, st.current_segment),
          current_segment |-> <<current>>]

\* one iteration of the scan: st holds segments and current_segment
ScanStep(st, previous, current) ==
    IF current.open_time - previous.open_time = OneHour
    THEN [st EXCEPT !.current_segment = Append(@, current)]
    ELSE [segments |-> Append(st.segments, st.current_segment),
          current_segment |-> <<current>>]

\* the iterations i = lo..hi of the scan, by halving the range
RECURSIVE ScanFrom(_, _, _, _)
ScanFrom(d, lo, hi, st) ==
    IF lo > hi THEN st
    ELSE IF lo = hi THEN ScanStep(st, d[lo], d[lo + 1])
    ELSE LET mid == (lo + hi) \div 2
             left == ScanFrom(d, lo, mid, st)
         IN IF left.current_segment # << >> THEN ScanFrom(d, mid + 1, hi, left) ELSE left

\* the whole segmenter on a non-empty frame d
Split(d) ==
    LET st == ScanFrom(d, 1, Len(d) - 1,
                       [segments |-> << >>, current_segment |-> <<d[1]>>])
    IN Append(st.segments, st.current_segment)

(***************************************************************************)
(* process_crypto_data: one segment                                        *)
(***************************************************************************)
ValueFields == {"open_price", "high_price", "low_price", "close_price",
                "volume", "number_of_trades"}

HasNull(seg) == \E k \in 1..Len(seg) : \E f \in ValueFields : seg[k][f] = NaN

\* fillna(method='ffill'): the nearest earlier value of the column
FfillAt(seg, f, k) ==
    LET known == {j \in 1..k : seg[j][f] # NaN}
    IN IF known = {} THEN NaN
       ELSE seg[CHOOSE j \in known : \A q \in known : q <= j][f]

\* fillna(method='bfill'): the nearest later value of the column
BfillAt(seg, f, k) ==
    LET known == {j \in k..Len(seg) : seg[j][f] # NaN}
    IN IF known = {} THEN NaN
       ELSE seg[CHOOSE j \in known : \A q \in known : q >= j][f]

FillValue(seg, f, k) ==
    IF FfillAt(seg, f, k) # NaN THEN FfillAt(seg, f, k) ELSE BfillAt(seg, f, k)

FillSegment(seg) ==
    IF HasNull(seg)
    THEN [k \in 1..Len(seg) |->
            [f \in DOMAIN seg[k] |->
                IF f \in ValueFields THEN FillValue(seg, f, k) ELSE seg[k][f]]]
    ELSE seg

\* the columns added to seg, and the row of index k of the finished frame
\* with its two time columns turned back into strings
\* (the columns 'Stochastic_%K', 'Stochastic_%D' and 'Williams_%R' are the
\* fields Stochastic_K, Stochastic_D and Williams_R)
IndicatorRows(seg, from) ==
    LET close == Column(seg, "close_price")
        high == Column(seg, "high_price")
        low == Column(seg, "low_price")
        vol == Column(seg, "volume")
        ma7 == RollingMean(close, 7)
        ma25 == RollingMean(close, 25)
        ma99 == RollingMean(close, 99)
        atr50 == AverageTrueRange(high, low, close, 50)
        ma50 == RollingMean(close, 50)
        rsi == RSI(close, 14)
        macd == MACDLine(close)
        macdSignal == MACDSignal(close)
        macdHist == MACDDiff(close)
        bbHigh == BollingerHband(close, 20, 2)
        bbLow == BollingerLband(close, 20, 2)
        bbMid == BollingerMavg(close, 20)
        stochK == Stoch(high, low, close, 14)
        stochD == StochSignal(high, low, close, 14, 3)
        adx == ADX(high, low, close, 14)
        adxPos == ADXPos(high, low, close, 14)
        adxNeg == ADXNeg(high, low, close, 14)
        williams == WilliamsR(high, low, close, 14)
        cmf == ChaikinMoneyFlow(high, low, close, vol, 20)
        mfi == MoneyFlowIndex(high, low, close, vol, 14)
        ema12 == EMA(close, 12)
        ema26 == EMA(close, 26)
    IN [r \in 1..(Len(seg) - from) |->
          LET k == from + r - 1
              bar == seg[k + 1]
          IN [open_time |-> Strftime(bar.open_time),
              close_time |-> Strftime(bar.close_time),
              open_price |-> bar.open_price,
              high_price |-> bar.high_price,
              low_price |-> bar.low_price,
              close_price |-> bar.close_price,
              volume |-> bar.volume,
              number_of_trades |-> bar.number_of_trades,
              MA7 |-> ma7[k], MA25 |-> ma25[k], MA99 |-> ma99[k],
              ATR50 |-> atr50[k], MA50 |-> ma50[k],
              Keltner_Upper |-> Add(ma50[k], DivInt(MulInt(atr50[k], multiplier), 100)),
              Keltner_Lower |-> Sub(ma50[k], DivInt(MulInt(atr50[k], multiplier), 100)),
              RSI |-> rsi[k],
              MACD |-> macd[k], MACD_Signal |-> macdSignal[k], MACD_Hist |-> macdHist[k],
              Bollinger_High |-> bbHigh[k], Bollinger_Low |-> bbLow[k],
              Bollinger_Middle |-> bbMid[k],
              Stochastic_K |-> stochK[k], Stochastic_D |-> stochD[k],
              ADX |-> adx[k], ADX_PDI |-> adxPos[k], ADX_MDI |-> adxNeg[k],
              Williams_R |-> williams[k],
              CMF |-> cmf[k], MFI |-> mfi[k],
              EMA12 |-> ema12[k], EMA26 |-> ema26[k]]]

\* ProcessedData trimming one row more, seg.iloc[100:]
ProcessedDataTrim100(segment) ==
    IF Len(segment) <= TrimCount + 1 THEN << >>
    ELSE IndicatorRows(FillSegment(segment), TrimCount + 1)

\* seg.iloc[99:] of the frame with its indicators, as a list of records
ProcessedData(segment) ==
    IF Len(segment) <= TrimCount THEN << >>
    ELSE IndicatorRows(FillSegment(segment), TrimCount)

\* whether the segment is long enough to be processed
Accepted(segment) == Len(segment) >= MinSegmentLen

\* EmitSegment numbering the combined entries 1, 2, 3, ... as they are added
EmitSegmentDense(processed_data, id, out) ==
    IF processed_data = << >>
    THEN [out EXCEPT !.files = (id :> processed_data) @@ @,
                     !.error = "IndexError"]
    ELSE [out EXCEPT
            !.files = (id :> processed_data) @@ @,
            !.combined = Append(@,
                [segment_id |-> Len(out.combined) + 1,
                 start_time |-> processed_data[1].open_time,
                 end_time |-> processed_data[Len(processed_data)].close_time,
                 records |-> processed_data])]

\* lines 130-148 for the trimmed frame processed_data of segment id: the
\* segment file is written, then the combined entry is built; an empty
\* frame fails at seg['open_time'].iloc[0], after its file is written
EmitSegment(processed_data, id, out) ==
    IF processed_data = << >>
    THEN [out EXCEPT !.files = (id :> processed_data) @@ @,
                     !.error = "IndexError"]
    ELSE [out EXCEPT
            !.files = (id :> processed_data) @@ @,
            !.combined = Append(@,
                [segment_id |-> id,
                 start_time |-> processed_data[1].open_time,
                 end_time |-> processed_data[Len(processed_data)].close_time,
                 records |-> processed_data])]

\* the body of the segment loop for the segment numbered id, on the outputs
\* written so far
ProcessStep(segment, id, out) ==
    IF Accepted(segment)
    THEN EmitSegment(ProcessedData(segment), id, out)
    ELSE [out EXCEPT !.warnings = Append(@, id)]

NoOutput == [files |-> << >>, combined |-> << >>, warnings |-> << >>, error |-> "none"]

RECURSIVE ProcessFrom(_, _, _)
ProcessFrom(segs, k, out) ==
    IF k > Len(segs) \/ out.error # "none" THEN out
    ELSE ProcessFrom(segs, k + 1, ProcessStep(segs[k], k, out))

\* segmenter and segment loop of a whole run on the sorted frame d
RunAll(d) == ProcessFrom(Split(d), 1, NoOutput)

(***************************************************************************)
(* generate_training_dataset.py: calculate_indicators, the true range and  *)
(* the Keltner channel (lines 43-60), over the whole sorted frame          *)
(***************************************************************************)
\* df['close_price'].shift(1)
previous_close(d) == Shift(Column(d, "close_price"))

\* tr1, tr2, tr3 and their row maximum, df[['tr1','tr2','tr3']].max(axis=1)
TR(d) ==
    LET high == Column(d, "high_price")
        low == Column(d, "low_price")
        pc1 == previous_close(d)
    IN [k \in DOMAIN high |->
          MaxSkipNa(MaxSkipNa(Sub(high[k], low[k]), Abs(Sub(high[k], pc1[k]))),
                    Abs(Sub(low[k], pc1[k])))]

\* df['TR'].rolling(window=50).mean()
ATR50(d) == RollingMean(TR(d), 50)

MA50(d) == RollingMean(Column(d, "close_price"), 50)

\* the columns ATR50, MA50, KC_upper and KC_lower of the frame
calculate_indicators(d) ==
    LET atr50 == ATR50(d)
        ma50 == MA50(d)
    IN [k \in 0..(Len(d) - 1) |->
          [ATR50 |-> atr50[k], MA50 |-> ma50[k],
           KC_upper |-> Add(ma50[k], DivInt(MulInt(atr50[k], multiplier), 100)),
           KC_lower |-> Sub(ma50[k], DivInt(MulInt(atr50[k], multiplier), 100))]]

(***************************************************************************)
(* validate_json.py: sort_klines and validate_klines                       *)
(***************************************************************************)
\* sorted(klines, key=lambda x: x['open_time']): a stable sort on the
\* open_time strings; records with equal keys keep their order
sort_klines(ks) ==
    LET n == Len(ks)
        p == CHOOSE q \in [1..n -> 1..n] :
                /\ \A a, b \in 1..n : a # b => q[a] # q[b]
                /\ \A a \in 1..(n - 1) :
                      \/ StrLess(ks[q[a]].open_time, ks[q[a + 1]].open_time)
                      \/ /\ ks[q[a]].open_time = ks[q[a + 1]].open_time
                         /\ q[a] < q[a + 1]
    IN [k \in 1..n |-> ks[p[k]]]

\* whether a list is already in the order sort_klines gives
IsSorted(ks) ==
    \A a \in 1..(Len(ks) - 1) : ~StrLess(ks[a + 1].open_time, ks[a].open_time)

\* the timestamps expected_time, expected_time + 1h, ... that the inner
\* loop (lines 62-64) appends for a given missing_hours
MissingTimes(expected_time, missing_hours) ==
    [j \in 1..missing_hours |-> Strftime(expected_time + ExpectedStep * (j - 1))]

\* ValidateStep reporting a repeated time once only
ValidateStepOnce(rep, previous_time, actual_time) ==
    LET expected_time == previous_time + ExpectedStep
    IN IF actual_time = previous_time
       THEN (IF \E d \in 1..Len(rep.duplicates) : rep.duplicates[d] = actual_time
             THEN rep
             ELSE [rep EXCEPT !.duplicates = Append(@, actual_time)])
       ELSE IF actual_time # expected_time
       THEN [rep EXCEPT !.missing =
                @ \o MissingTimes(expected_time,
                                  (actual_time - expected_time) \div ExpectedStep)]
       ELSE rep

\* lines 54-64: one iteration of the loop, on rep = the two lists so far
ValidateStep(rep, previous_time, actual_time) ==
    LET expected_time == previous_time + ExpectedStep
    IN IF actual_time = previous_time
       THEN [rep EXCEPT !.duplicates = Append(@, actual_time)]
       ELSE IF actual_time # expected_time
       THEN [rep EXCEPT !.missing =
                @ \o MissingTimes(expected_time,
                                  (actual_time - expected_time) \div ExpectedStep)]
       ELSE rep

Head10(xs) == SubSeq(xs, 1, IF Len(xs) < 10 THEN Len(xs) ELSE 10)

\* lines 66-73: the pair (is_valid, message) returned after the loop; the
\* message names every duplicate, the count of the missing timestamps and
\* the first ten of them
ValidateResult(dups, miss) ==
    IF dups # << >> \/ miss # << >>
    THEN [is_valid |-> FALSE, kind |-> "errors",
          duplicates |-> [k \in 1..Len(dups) |-> Strftime(dups[k])],
          missing_count |-> Len(miss),
          missing_shown |-> Head10(miss),
          ellipsis |-> Len(miss) > 20]
    ELSE [is_valid |-> TRUE, kind |-> "ok", duplicates |-> << >>,
          missing_count |-> 0, missing_shown |-> << >>, ellipsis |-> FALSE]

\* EarlyResult reporting the input as valid
EarlyResultValid(kind) ==
    [is_valid |-> TRUE, kind |-> kind, duplicates |-> << >>,
     missing_count |-> 0, missing_shown |-> << >>, ellipsis |-> FALSE]

\* lines 40 and 50: the pair (False, message) returned for an empty list
\* (kind "empty") and for a timestamp that does not parse (kind "format")
EarlyResult(kind) ==
    [is_valid |-> FALSE, kind |-> kind, duplicates |-> << >>,
     missing_count |-> 0, missing_shown |-> << >>, ellipsis |-> FALSE]

NoResult == EarlyResult("none")

(***************************************************************************)
(* The run of process_crypto_data as a state machine                       *)
(***************************************************************************)
\* the combined output file before it is written
NoFile == [written |-> FALSE, entries |-> << >>]

PipeIdle ==
    /\ df = << >> /\ i = 0 /\ current_segment = << >> /\ segments = << >>
    /\ idx = 0 /\ combined_processed_segments = << >>
    /\ segment_files = << >> /\ combined_file = NoFile
    /\ warnings = << >> /\ error = "none"

NoTwin == [df |-> << >>, kind |-> "none", from |-> 0, to |-> 0]

TwinIdle == twin = NoTwin /\ twinOut = NoOutput

ValIdle ==
    /\ klines = << >> /\ times = << >> /\ vi = 0 /\ duplicates = << >>
    /\ missing = << >> /\ vpc = "idle" /\ vresult = NoResult

Init ==
    /\ data \in SmallData \cup BigData
    /\ pc = "load"
    /\ PipeIdle /\ TwinIdle /\ ValIdle

\* lines 16-32: load, parse, sort, and start the first run.  An empty list
\* gives a frame without columns (KeyError at df['open_time']); a string
\* that does not parse raises ValueError.
Load ==
    /\ pc = "load"
    /\ IF data = << >>
       THEN /\ pc' = "crashed" /\ error' = "KeyError"
            /\ UNCHANGED <<df, i, current_segment>>
       ELSE IF ~Parseable(data)
       THEN /\ pc' = "crashed" /\ error' = "ValueError"
            /\ UNCHANGED <<df, i, current_segment>>
       ELSE /\ df' \in SortValues(ParseFrame(data))
            /\ current_segment' = <<df'[1]>>
            /\ i' = 1
            /\ pc' = "split"
            /\ UNCHANGED error
    /\ UNCHANGED <<data, segments, idx, combined_processed_segments,
                   segment_files, combined_file, warnings>>
    /\ UNCHANGED <<twinVars, valVars>>

\* lines 35-42: one iteration of the scan, comparing df.iloc[i] with
\* df.iloc[i-1]
SegmentScan ==
    /\ pc = "split" /\ i < Len(df)
    /\ LET st == ScanStep([segments |-> segments, current_segment |-> current_segment],
                          df[i], df[i + 1])
       IN /\ segments' = st.segments
          /\ current_segment' = st.current_segment
    /\ i' = i + 1
    /\ UNCHANGED <<data, df, idx, combined_processed_segments, segment_files,
                   combined_file, warnings, pc, error>>
    /\ UNCHANGED <<twinVars, valVars>>

\* line 44: the last run is closed when the scan ends
SegmentClose ==
    /\ pc = "split" /\ i >= Len(df)
    /\ segments' = Append(segments, current_segment)
    /\ pc' = "process"
    /\ UNCHANGED <<data, df, i, current_segment, idx, combined_processed_segments,
                   segment_files, combined_file, warnings, error>>
    /\ UNCHANGED <<twinVars, valVars>>

\* lines 52-151: the loop body for segments[idx]
ProcessSegment ==
    /\ pc = "process" /\ idx < Len(segments)
    /\ \E out \in {ProcessStep(segments[idx + 1], idx + 1,
                               [files |-> segment_files,
                                combined |-> combined_processed_segments,
                                warnings |-> warnings,
                                error |-> error])} :
          /\ segment_files' = out.files
          /\ combined_processed_segments' = out.combined
          /\ warnings' = out.warnings
          /\ error' = out.error
          /\ pc' = IF out.error = "none" THEN "process" ELSE "crashed"
    /\ idx' = idx + 1
    /\ UNCHANGED <<data, df, i, current_segment, segments, combined_file>>
    /\ UNCHANGED <<twinVars, valVars>>

\* lines 154-155: the combined file is written after the loop
WriteCombined ==
    /\ pc = "process" /\ idx = Len(segments)
    /\ combined_file' = [written |-> TRUE, entries |-> combined_processed_segments]
    /\ pc' = "done"
    /\ UNCHANGED <<data, df, i, current_segment, segments, idx,
                   combined_processed_segments, segment_files, warnings, error>>
    /\ UNCHANGED <<twinVars, valVars>>

Next == Load \/ SegmentScan \/ SegmentClose \/ ProcessSegment \/ WriteCombined

Spec == Init /\ [][Next]_vars

(***************************************************************************)
(* Two runs of process_crypto_data on frames that share some of their bars *)
(***************************************************************************)
\* another value for a field of a bar; a missing value stays missing
Bump(v) == IF v = NaN THEN NaN ELSE v + 1

Perturb(bar) ==
    [bar EXCEPT !.open_price = Bump(@), !.high_price = Bump(@),
                !.low_price = Bump(@), !.close_price = Bump(@),
                !.volume = Bump(@)]

\* the frame d with every bar at a position outside lo..hi perturbed
PerturbOutside(d, lo, hi) ==
    [p \in 1..Len(d) |-> IF p >= lo /\ p <= hi THEN d[p] ELSE Perturb(d[p])]

\* the frame d with the bars at positions lo..hi perturbed
PerturbInside(d, lo, hi) ==
    [p \in 1..Len(d) |-> IF p >= lo /\ p <= hi THEN Perturb(d[p]) ELSE d[p]]

ShapeLast(shape, r) == ShapeFirst(shape, r) + shape[r][1] - 1

\* "outside": run r is shared and every bar of the other runs differs;
\* "later": the bars of run r after position c differ and all others are
\* shared.  from and to are the open_times of the first and last bar of the
\* shared part of run r.
Twins(d, shape) ==
    {[df |-> PerturbOutside(d, ShapeFirst(shape, r), ShapeLast(shape, r)),
      kind |-> "outside",
      from |-> d[ShapeFirst(shape, r)].open_time,
      to |-> d[ShapeLast(shape, r)].open_time] :
        r \in {q \in 1..Len(shape) : Len(shape) > 1}}
    \cup UNION {{[df |-> PerturbInside(d, c + 1, ShapeLast(shape, r)),
                  kind |-> "later",
                  from |-> d[ShapeFirst(shape, r)].open_time,
                  to |-> d[c].open_time] :
                    c \in (ShapeFirst(shape, r) + TrimCount)..(ShapeLast(shape, r) - 1)}
                : r \in 1..Len(shape)}

TwinCases ==
    {<<sh, {}>> : sh \in {<< <<100, 7200>>, <<101, 0>> >>,
                          << <<51, 14400>>, <<107, 0>> >>}}
    \cup {<<sh, {}>> : sh \in {<< <<n, 0>> >> : n \in 100..(100 + MaxExtra)}}
    \cup {<< << <<101, 0>> >>, m >> : m \in {{50}, 1..100}}

TwinInit ==
    /\ \E c \in TwinCases :
          /\ data = Build(c[1], "wave", c[2])
          /\ twin \in Twins(ParseFrame(data), c[1])
    /\ pc = "load"
    /\ PipeIdle /\ twinOut = NoOutput /\ ValIdle

\* the whole of process_crypto_data on the twin frame, once the run on data
\* has ended
RunTwin ==
    /\ pc \in {"done", "crashed"} /\ twin # NoTwin /\ twinOut = NoOutput
    /\ twinOut' = RunAll(twin.df)
    /\ UNCHANGED <<pipeVars, twin, valVars>>

NextTwin ==
    Load \/ SegmentScan \/ SegmentClose \/ ProcessSegment \/ WriteCombined \/ RunTwin

SpecTwin == TwinInit /\ [][NextTwin]_vars

(***************************************************************************)
(* Properties of the segmenter                                             *)
(***************************************************************************)
RECURSIVE Flatten(_, _)
Flatten(segs, n) == IF n = 0 THEN << >> ELSE Flatten(segs, n - 1) \o segs[n]

\* the scan has ended on a frame that was loaded
Segmented == pc \in {"process", "done", "crashed"} /\ df # << >>

\* C1: once the scan has ended, no segment is empty and the segments, put
\* end to end in output order, are the sorted frame bar for bar; while the
\* scan runs, the closed segments followed by the open run are the bars
\* scanned so far.
C1_SegmentsPartitionFrame ==
    /\ Segmented =>
          /\ \A s \in 1..Len(segments) : segments[s] # << >>
          /\ Flatten(segments, Len(segments)) = df
    /\ pc = "split" =>
          Flatten(segments, Len(segments)) \o current_segment = SubSeq(df, 1, i)

\* a frame of three bars or more was cut into several segments, and a
\* frame of one bar gave one segment of one bar
C1_Witness ==
    /\ Segmented /\ Len(df) >= 3 /\ Len(segments) >= 2
    /\ \E s \in 1..Len(segments) : Len(segments[s]) >= 2

\* C2: inside a segment adjacent bars are exactly one hour apart, and the
\* two bars across the end of one segment and the start of the next are
\* not one hour apart.
C2_SegmentsAreMaximalRuns ==
    Segmented =>
        /\ \A s \in 1..Len(segments) : \A k \in 1..(Len(segments[s]) - 1) :
              segments[s][k + 1].open_time - segments[s][k].open_time = 3600
        /\ \A s \in 1..(Len(segments) - 1) :
              segments[s + 1][1].open_time
                  - segments[s][Len(segments[s])].open_time # 3600

\* two segments: one of two bars, then a boundary at a duplicate
\* open_time, or at an off-grid step of half an hour
C2_Witness ==
    /\ Segmented /\ Len(segments) = 2
    /\ Len(segments[1]) = 2
    /\ segments[2][1].open_time - segments[1][2].open_time \in {0, 1800}

(***************************************************************************)
(* Properties of the segment loop                                          *)
(***************************************************************************)
\* the segments the loop has dealt with so far
Processed == 1..idx

Warned(s) == \E w \in 1..Len(warnings) : warnings[w] = s

\* C3: a segment of fewer than 100 bars is discarded with a warning, with
\* no error and no file, and a segment of 100 bars or more is accepted and
\* its file written.
C3_RejectsExactlyBelow100 ==
    \A s \in Processed :
        IF Len(segments[s]) < 100
        THEN Warned(s) /\ s \notin DOMAIN segment_files /\ error = "none"
        ELSE ~Warned(s) /\ s \in DOMAIN segment_files

\* C4: the file of a segment of L bars has L - 99 rows, and row r carries
\* the times and the recorded prices and volume of the segment's bar of
\* index 99 + r; 150 contiguous bars give one segment and 51 rows, and 51
\* bars, a gap and 107 bars give two segments and 8 rows, all of the second.
C4_RowsAlignedAfterWarmup ==
    /\ \A s \in DOMAIN segment_files :
          /\ Len(segment_files[s]) = Len(segments[s]) - 99
          /\ \A r \in 1..Len(segment_files[s]) :
                /\ segment_files[s][r].open_time
                       = Strftime(segments[s][99 + r].open_time)
                /\ segment_files[s][r].close_time
                       = Strftime(segments[s][99 + r].close_time)
                /\ \A f \in ValueFields :
                      segments[s][99 + r][f] # NaN
                          => segment_files[s][r][f] = segments[s][99 + r][f]
    /\ (pc = "done" /\ Len(data) = 150 /\ Len(segments) = 1) =>
          Len(segment_files[1]) = 51
    /\ (pc = "done" /\ Len(segments) = 2 /\ Len(segments[1]) = 51
            /\ Len(segments[2]) = 107) =>
          DOMAIN segment_files = {2} /\ Len(segment_files[2]) = 8

\* the run on 51 bars, a gap and 107 bars has ended with its 8 rows
C4_Witness ==
    /\ pc = "done" /\ Len(segments) = 2 /\ Len(segments[1]) = 51
    /\ 2 \in DOMAIN segment_files /\ Len(segment_files[2]) = 8
    /\ segment_files[2][8].open_time = Strftime(df[158].open_time)

IndicatorFields ==
    {"MA7", "MA25", "MA99", "ATR50", "MA50", "Keltner_Upper", "Keltner_Lower",
     "RSI", "MACD", "MACD_Signal", "MACD_Hist", "Bollinger_High",
     "Bollinger_Low", "Bollinger_Middle", "Stochastic_K", "Stochastic_D",
     "ADX", "ADX_PDI", "ADX_MDI", "Williams_R", "CMF", "MFI", "EMA12", "EMA26"}

\* C8: every indicator field of every emitted row is a number.
C8_NoUndefinedIndicator ==
    \A s \in DOMAIN segment_files : \A r \in 1..Len(segment_files[s]) :
        \A f \in IndicatorFields : IsNum(segment_files[s][r][f])

(***************************************************************************)
(* Properties of two runs on frames that share bars                        *)
(***************************************************************************)
BothRan == pc \in {"done", "crashed"} /\ twinOut # NoOutput

\* the row r of the file of segment s belongs to a bar both frames share
SharedRow(s, r) ==
    LET t == Strptime(segment_files[s][r].open_time)
    IN t >= twin.from /\ t <= twin.to

\* every row of a shared bar is the same row in the outputs of both runs
SharedRowsAgree ==
    \A s \in DOMAIN segment_files : \A r \in 1..Len(segment_files[s]) :
        SharedRow(s, r) =>
            /\ s \in DOMAIN twinOut.files
            /\ r <= Len(twinOut.files[s])
            /\ twinOut.files[s][r] = segment_files[s][r]

\* C9: when two frames have the same timestamps and agree on every bar of
\* one run, the rows emitted for that run are the same in both outputs,
\* whatever the bars of the other runs are.
C9_NoCrossSegmentLeak ==
    (BothRan /\ twin.kind = "outside") => SharedRowsAgree

\* both runs emitted rows for the shared run and for another run, and the
\* rows of the other run differ
C9_Witness ==
    /\ BothRan /\ twin.kind = "outside" /\ pc = "done"
    /\ \E s \in DOMAIN segment_files :
          /\ segment_files[s] # << >>
          /\ \A r \in 1..Len(segment_files[s]) : SharedRow(s, r)
    /\ \E s \in DOMAIN segment_files :
          /\ segment_files[s] # << >>
          /\ twinOut.files[s] # segment_files[s]

\* C10: when two frames agree on every bar of a run up to some bar and
\* differ on the later bars of the run, the rows emitted up to that bar are
\* the same in both outputs, missing values and the fill pass included.
C10_NoLookAhead ==
    (BothRan /\ twin.kind = "later") => SharedRowsAgree

(***************************************************************************)
(* validate_json.py as a state machine: main (load, sort, validate), or a  *)
(* direct call of validate_klines on a list that is already sorted         *)
(***************************************************************************)
\* two bars that lie 11, 12 and 22 hours apart: 10, 11 and 21 missing hours
LongGapData == {Build(<< <<1, 3600 * g>>, <<1, 0>> >>, "wave", {}) : g \in {11, 12, 22}}

ValInit ==
    /\ klines \in SmallData \cup LongGapData
    /\ vpc \in {"main"} \cup {c \in {"call"} : IsSorted(klines)}
    /\ times = << >> /\ vi = 0 /\ duplicates = << >> /\ missing = << >>
    /\ vresult = NoResult
    /\ data = << >> /\ pc = "idle" /\ PipeIdle /\ TwinIdle

\* main, lines 78-81: an empty list ends main before anything is validated
MainReturn ==
    /\ vpc = "main" /\ klines = << >>
    /\ vpc' = "returned"
    /\ UNCHANGED <<klines, times, vi, duplicates, missing, vresult>>
    /\ UNCHANGED <<pipeVars, twinVars>>

\* main, line 84
SortKlines ==
    /\ vpc = "main" /\ klines # << >>
    /\ klines' = sort_klines(klines)
    /\ vpc' = "call"
    /\ UNCHANGED <<times, vi, duplicates, missing, vresult>>
    /\ UNCHANGED <<pipeVars, twinVars>>

\* validate_klines, lines 39-50: the empty list and a timestamp that does
\* not parse return early; otherwise the times are parsed
ValidateEnter ==
    /\ vpc = "call"
    /\ IF klines = << >>
       THEN /\ vresult' = EarlyResult("empty") /\ vpc' = "returned"
            /\ UNCHANGED <<times, vi>>
       ELSE IF \E k \in 1..Len(klines) : Strptime(klines[k].open_time) = ParseError
       THEN /\ vresult' = EarlyResult("format") /\ vpc' = "returned"
            /\ UNCHANGED <<times, vi>>
       ELSE /\ times' = [k \in 1..Len(klines) |-> Strptime(klines[k].open_time)]
            /\ vi' = 1
            /\ vpc' = "loop"
            /\ UNCHANGED vresult
    /\ UNCHANGED <<klines, duplicates, missing>>
    /\ UNCHANGED <<pipeVars, twinVars>>

\* lines 53-64: the iteration i = vi of the loop (times[i-1], times[i])
ValidateLoop ==
    /\ vpc = "loop" /\ vi < Len(times)
    /\ \E rep \in {ValidateStep([duplicates |-> duplicates, missing |-> missing],
                                 times[vi], times[vi + 1])} :
          /\ duplicates' = rep.duplicates
          /\ missing' = rep.missing
    /\ vi' = vi + 1
    /\ UNCHANGED <<klines, times, vpc, vresult>>
    /\ UNCHANGED <<pipeVars, twinVars>>

\* lines 66-73
ValidateReturn ==
    /\ vpc = "loop" /\ vi >= Len(times)
    /\ vresult' = ValidateResult(duplicates, missing)
    /\ vpc' = "returned"
    /\ UNCHANGED <<klines, times, vi, duplicates, missing>>
    /\ UNCHANGED <<pipeVars, twinVars>>

NextVal == MainReturn \/ SortKlines \/ ValidateEnter \/ ValidateLoop \/ ValidateReturn

SpecVal == ValInit /\ [][NextVal]_vars

(***************************************************************************)
(* Properties of validate_klines                                           *)
(***************************************************************************)
\* validate_klines has returned after its loop
Returned == vpc = "returned" /\ vresult.kind \in {"ok", "errors"}

\* C5: the result is valid exactly when every adjacent pair of open_times
\* is one hour apart.
C5_ValidIffHourly ==
    Returned =>
        (vresult.is_valid
            <=> \A k \in 1..(Len(times) - 1) : times[k + 1] - times[k] = 3600)

\* previous + 1h, previous + 2h, ... strictly before next
StepsBetween(previous, next) ==
    [j \in 1..((next - previous - 1) \div 3600) |-> Strftime(previous + 3600 * j)]

\* the steps between the pairs (ts[k], ts[k+1]), k < n, that are neither
\* equal nor one hour apart, in order
RECURSIVE AllStepsBetween(_, _)
AllStepsBetween(ts, n) ==
    IF n <= 1 THEN << >>
    ELSE AllStepsBetween(ts, n - 1)
         \o (IF ts[n] - ts[n - 1] \in {0, 3600} THEN << >>
             ELSE StepsBetween(ts[n - 1], ts[n]))

\* C6: the missing list is, in order, every hourly step after previous and
\* strictly before next, for each adjacent pair that is neither equal nor
\* one hour apart.
C6_MissingIsEveryStepBetween ==
    Returned => missing = AllStepsBetween(times, Len(times))

Occurrences(xs, v) == Cardinality({k \in 1..Len(xs) : xs[k] = v})

\* C7 as claimed: each open_time that occurs more than once is in the
\* duplicates exactly once, and one that occurs once is not in them.
C7_DuplicatesFormASet ==
    Returned =>
        \A k \in 1..Len(times) :
            Occurrences(duplicates, times[k])
                = (IF Occurrences(times, times[k]) > 1 THEN 1 ELSE 0)

\* the times with each run of equal times cut down to its first
RECURSIVE Dedup(_, _)
Dedup(ts, n) ==
    IF n = 0 THEN << >>
    ELSE IF n > 1 /\ ts[n] = ts[n - 1] THEN Dedup(ts, n - 1)
    ELSE Append(Dedup(ts, n - 1), ts[n])

\* the whole hours that fit between previous + 1h and next, in order
HoursShort(previous, next) ==
    [j \in 1..((next - previous) \div 3600 - 1) |-> Strftime(previous + 3600 * j)]

RECURSIVE GapsOf(_, _)
GapsOf(ts, n) ==
    IF n <= 1 THEN << >>
    ELSE GapsOf(ts, n - 1) \o HoursShort(ts[n - 1], ts[n])

\* C7 as amended: an open_time that occurs n times is in the duplicates
\* n - 1 times, once for each record that repeats it; nothing else is in
\* them; and the missing list is the one of the same times without their
\* repeats.
C7_DuplicatePerRepeat ==
    Returned =>
        /\ \A k \in 1..Len(times) :
              Occurrences(duplicates, times[k]) = Occurrences(times, times[k]) - 1
        /\ \A d \in 1..Len(duplicates) : Occurrences(times, duplicates[d]) > 1
        /\ missing = GapsOf(Dedup(times, Len(times)),
                            Len(Dedup(times, Len(times))))

\* an open_time that occurs three times was reported twice
C7_Witness ==
    /\ Returned /\ Len(times) = 3 /\ times[1] = times[3]
    /\ Len(duplicates) = 2

(***************************************************************************)
(* Properties of the artifacts of a run                                    *)
(***************************************************************************)
\* process_crypto_data has stopped, normally or by an error
Stopped == pc \in {"done", "crashed"}

\* the entries of the combined file on disk
CombinedEntries == combined_file.entries

EntriesOf(s) ==
    {e \in 1..Len(CombinedEntries) : CombinedEntries[e].segment_id = s}

\* C11: when the run has stopped, each segment has either its file with
\* all its rows and its entry in the combined file, or no file and no
\* entry.
C11_SegmentOutputAllOrNothing ==
    Stopped =>
        \A s \in 1..Len(segments) :
            \/ /\ s \in DOMAIN segment_files
               /\ segment_files[s] # << >>
               /\ Len(segment_files[s]) = Len(segments[s]) - 99
               /\ \E e \in EntriesOf(s) :
                     CombinedEntries[e].records = segment_files[s]
            \/ /\ s \notin DOMAIN segment_files
               /\ EntriesOf(s) = {}

\* the scan has ended and one of the segments is too short for the warm-up
HasShortSegment ==
    Segmented /\ \E s \in 1..Len(segments) : Len(segments[s]) < 100

\* the combined file is written and holds every segment of 100 bars or more
Completed ==
    /\ pc = "done" /\ combined_file.written
    /\ \A s \in 1..Len(segments) : Len(segments[s]) >= 100 => EntriesOf(s) # {}

\* C12: a run with a segment too short for the warm-up is never ended by
\* an error, and when it has ended the combined file is written and holds
\* every segment of sufficient length.
C12_ShortSegmentNeverAborts ==
    HasShortSegment =>
        /\ pc # "crashed"
        /\ pc = "done" => Completed

\* a value field of the segment is missing in every bar, so that neither
\* fill pass can give it a value
Unfillable(seg) ==
    \E f \in ValueFields : \A k \in 1..Len(seg) : seg[k][f] = NaN

EntryIdsSoFar ==
    {combined_processed_segments[e].segment_id
        : e \in 1..Len(combined_processed_segments)}

\* C13: no emitted row carries a missing value, and a segment in which a
\* field is missing in every bar is rejected: it has no file and no entry
\* in the combined list.
C13_UnfillableSegmentRejected ==
    \A s \in Processed :
        /\ s \in DOMAIN segment_files =>
              \A r \in 1..Len(segment_files[s]) : \A f \in ValueFields :
                  segment_files[s][r][f] # NaN
        /\ Unfillable(segments[s]) =>
              s \notin DOMAIN segment_files /\ s \notin EntryIdsSoFar

\* C14: the result validate_klines returns holds every missing timestamp
\* the loop found, whatever their number.
C14_ResultHasEveryMissing ==
    Returned /\ vresult.kind = "errors" =>
        /\ vresult.missing_shown = missing
        /\ vresult.missing_count = Len(missing)

\* validate_klines has been called and has returned
Validated == vpc = "returned" /\ vresult.kind # "none"

Malformed(ks) == \E k \in 1..Len(ks) : Strptime(ks[k].open_time) = ParseError

\* C15 as stated: an empty list and a malformed timestamp are signalled by
\* raising, so validate_klines never returns a result for them.
C15_RaisesOnEmptyOrMalformed ==
    Validated => klines # << >> /\ ~Malformed(klines)

\* C15, amended: validate_klines returns for every input.  For an empty
\* list it returns the invalid result of kind "empty", for a list with a
\* malformed timestamp the invalid result of kind "format", neither with
\* any duplicate or missing timestamp, and for every other list a report;
\* and no step of validate_klines changes the input list.
C15_ReturnsInvalidOnEmptyOrMalformed ==
    /\ [](Validated =>
            /\ klines = << >> => vresult = EarlyResult("empty")
            /\ klines # << >> /\ Malformed(klines) => vresult = EarlyResult("format")
            /\ klines # << >> /\ ~Malformed(klines) => vresult.kind \in {"ok", "errors"}
            /\ vresult.kind \in {"empty", "format"} => ~vresult.is_valid)
    /\ [][(vpc \in {"call", "loop"}) => klines' = klines]_vars

\* validate_klines has returned the "format" result for a list of which
\* the second timestamp does not parse
C15_Witness ==
    /\ Validated /\ vresult.kind = "format" /\ ~vresult.is_valid
    /\ Len(klines) >= 2 /\ Strptime(klines[2].open_time) = ParseError

\* C16: a run on an empty list ends with the error EmptySequenceError,
\* with no segment, no segment file and no combined file.
C16_EmptyInputRejected ==
    data = << >> /\ pc # "load" =>
        /\ pc = "crashed" /\ error = "EmptySequenceError"
        /\ segments = << >> /\ segment_files = << >> /\ combined_file = NoFile

\* the frame has just been loaded and sorted
JustLoaded == pc = "split" /\ i = 1

\* df holds every record of the input once, in ascending order of open_time
SortedPermutation ==
    /\ Len(df) = Len(data)
    /\ \A p \in 1..Len(data) : \E k \in 1..Len(df) : df[k] = ParseRow(data[p])
    /\ \A k \in 1..(Len(df) - 1) : df[k].open_time <= df[k + 1].open_time

\* C17: the loaded frame is a permutation of the input records in
\* ascending order of open_time, and records with the same open_time keep
\* the order they have in the input (number_of_trades is the position of
\* the record in the input).
C17_LoaderSortsStably ==
    JustLoaded =>
        /\ SortedPermutation
        /\ \A k \in 1..(Len(df) - 1) :
              df[k].open_time = df[k + 1].open_time =>
                  df[k].number_of_trades < df[k + 1].number_of_trades

(***************************************************************************)
(* The average true range and the Keltner bands                            *)
(***************************************************************************)
\* the true range of bar k of bars (k counted from 1): high - low for the
\* first bar, and for a later bar the largest of high - low and the
\* distances of high and of low from the close of the bar before
SimpleTR(bars, k) ==
    LET hl == Scale * (bars[k].high_price - bars[k].low_price)
        hc == Abs(Scale * (bars[k].high_price - bars[k - 1].close_price))
        lc == Abs(Scale * (bars[k].low_price - bars[k - 1].close_price))
    IN IF k = 1 THEN hl ELSE Max2(hl, Max2(hc, lc))

RECURSIVE SumTR(_, _, _)
SumTR(bars, lo, hi) ==
    IF lo > hi THEN 0 ELSE SimpleTR(bars, hi) + SumTR(bars, lo, hi - 1)

\* the simple mean of the true ranges of the 50 bars that end with bar k
SimpleATR50(bars, k) == SumTR(bars, k - 49, k) \div 50

\* the band at the distance 2.75 * atr from ma, above (sign 1) or below
Band(ma, atr, sign) == ma + sign * ((atr * 275) \div 100)

\* the rows written for the segment the loop has just dealt with have the
\* simple mean as ATR50, and their bands lie 2.75 ATR50 from MA50
SegmentATRIsSimpleMean ==
    (idx \in DOMAIN segment_files /\ ~Unfillable(segments[idx])) =>
        LET bars == FillSegment(segments[idx])
        IN \A r \in 1..Len(segment_files[idx]) :
              /\ segment_files[idx][r].ATR50 = SimpleATR50(bars, 99 + r)
              /\ segment_files[idx][r].Keltner_Upper
                    = Band(segment_files[idx][r].MA50, segment_files[idx][r].ATR50, 1)
              /\ segment_files[idx][r].Keltner_Lower
                    = Band(segment_files[idx][r].MA50, segment_files[idx][r].ATR50, -1)

\* calculate_indicators on the loaded frame, when no value is missing
FrameATRIsSimpleMean ==
    (JustLoaded /\ ~HasNull(df)) =>
        LET rows == calculate_indicators(df)
        IN \A k \in 49..(Len(df) - 1) :
              /\ rows[k].ATR50 = SimpleATR50(df, k + 1)
              /\ rows[k].KC_upper = Band(rows[k].MA50, rows[k].ATR50, 1)
              /\ rows[k].KC_lower = Band(rows[k].MA50, rows[k].ATR50, -1)

\* C18: from bar index 49 on, ATR50 is the simple mean of the true range
\* of the last 50 bars and the Keltner bands are MA50 + 2.75 ATR50 and
\* MA50 - 2.75 ATR50, in calculate_indicators and in process_crypto_data.
C18_ATRIsSimpleMeanOfTR == FrameATRIsSimpleMean /\ SegmentATRIsSimpleMean

(***************************************************************************)
(* The combined file of a completed run                                    *)
(***************************************************************************)
\* C19: when the run has completed, the combined file has one entry per
\* accepted segment and no other, in the order of the segments; the
\* segment_id of an entry is the position of its segment among all the
\* segments, its records are the rows of that segment's file, and its
\* start_time and end_time are the open_time of the first and the
\* close_time of the last of these rows.
C19_CombinedListsAcceptedSegments ==
    pc = "done" =>
        /\ combined_file.written
        /\ {CombinedEntries[e].segment_id : e \in 1..Len(CombinedEntries)}
              = {s \in 1..Len(segments) : Accepted(segments[s])}
        /\ \A e \in 1..(Len(CombinedEntries) - 1) :
              CombinedEntries[e].segment_id < CombinedEntries[e + 1].segment_id
        /\ \A e \in 1..Len(CombinedEntries) :
              LET id == CombinedEntries[e].segment_id
                  records == CombinedEntries[e].records
              IN /\ id \in DOMAIN segment_files
                 /\ records = segment_files[id]
                 /\ records # << >>
                 /\ CombinedEntries[e].start_time = records[1].open_time
                 /\ CombinedEntries[e].end_time = records[Len(records)].close_time
                 /\ CombinedEntries[e].start_time
                       = Strftime(segments[id][100].open_time)
                 /\ CombinedEntries[e].end_time
                       = Strftime(segments[id][Len(segments[id])].close_time)

\* a run has completed in which the first segment was discarded and the
\* second accepted: the only entry of the combined file has segment_id 2
C19_Witness ==
    /\ pc = "done" /\ Len(segments) = 2 /\ Warned(1)
    /\ Len(CombinedEntries) = 1 /\ CombinedEntries[1].segment_id = 2
    /\ CombinedEntries[1].records = segment_files[2]

====
